---------------------------- MODULE Spec2Model ----------------------------
(***************************************************************************)
(* Model of the travel-expense form printer (rust-print-pdf).              *)
(*                                                                         *)
(* A Rust String is modelled as a sequence of characters.  An ASCII        *)
(* character is the one-character TLA+ string itself; a non-ASCII          *)
(* character is written by its code point ("U+3000").  Utf8Len gives the   *)
(* number of bytes the character takes in the String, so that byte         *)
(* lengths and byte slices can be told from character counts.             *)
(***************************************************************************)
EXTENDS Integers, Sequences, FiniteSets, TLC

VARIABLES
    pc,           \* position of the call under study
    build,        \* "debug" (overflow checks on) or "release" (wrapping)
    args,         \* the arguments of the function under study
    ret,          \* what it returned
    ryohi_list,   \* add_ryohi_items: the records of the item
    idx,          \* add_ryohi_items: index of the record in the outer loop
    print_data,   \* add_ryohi_items: print_data of the current record
    actual_rows,  \* add_ryohi_items: actual_rows of the current record
    row,          \* add_ryohi_items: the inner loop's row
    drawn_rows,   \* add_ryohi_items: drawn_rows of the current record
    current_row,  \* add_ryohi_items: rows consumed on the page
    ops,          \* add_ryohi_items: the text draw operations emitted
    pages,        \* generate: the pages built so far, one per item
    files,        \* the file system: the file at each path, if any
    requests,     \* PdfService: the request of each call
    task,         \* PdfService: the position of each call
    prints,       \* the invocations of the printer, in order
    results       \* PdfService: what each call returned

vars == <<pc, build, args, ret, ryohi_list, idx, print_data, actual_rows,
          row, drawn_rows, current_row, ops, pages, files, requests, task,
          prints, results>>

svcVars == <<pages, files, requests, task, prints, results>>

pageVars == <<ryohi_list, idx, print_data, actual_rows, row, drawn_rows,
              current_row, ops>>

-----------------------------------------------------------------------------
(* Bounds of the model *)

\* largest number of fragments in a detail list
MaxFrags == 3
\* largest max_len handed to the wrap functions
MaxWidth == 5
\* largest number of characters of a generated route string
MaxKukanLen == 4
\* largest row_count handed to align_rows
MaxRows == 3
\* largest number of characters of a date replaced by a multi-byte one
MaxWide == 2
\* amounts -MaxAmount..MaxAmount are formatted besides the i32 corner values
MaxAmount == 1100
\* largest number of records of an item
MaxRecords == 3
\* the longest line sequence of a print row whose content is queried
MaxLines == 2
\* the most items of a generated document
MaxItems == 2

-----------------------------------------------------------------------------
(* Strings *)

AsciiChars ==
    {"a", "b", "c", "x", "e", "d", "*", " ", "\t", "|", "_", "-", "/", ",", ".", "T",
     "0", "1", "2", "3", "4", "5", "6", "7", "8", "9"}

\* bytes of the character in UTF-8; every non-ASCII character used here
\* (U+3000..U+FF5C) takes three
Utf8Len(c) == IF c \in AsciiChars THEN 1 ELSE 3

RECURSIVE ByteLen(_)
\* str::len
ByteLen(s) == IF s = <<>> THEN 0 ELSE Utf8Len(Head(s)) + ByteLen(Tail(s))

\* char::is_whitespace, on the characters of the model
IsWhitespace(c) == c \in {" ", "\t", "U+3000"}

\* line.trim().is_empty()
IsBlank(s) == \A k \in 1..Len(s) : IsWhitespace(s[k])

\* only the empty lines are dropped, the whitespace-only ones are kept
FilterNonBlank_EmptyOnly(lines) == SelectSeq(lines, LAMBDA line : line # <<>>)

\* .filter(|line| !line.trim().is_empty())
FilterNonBlank(lines) == SelectSeq(lines, LAMBDA line : ~IsBlank(line))

\* the strings of at most n characters over the alphabet
StringsUpTo(alphabet, n) == UNION {[1..k -> alphabet] : k \in 0..n}

\* the sequences of at most n elements of S
SeqsUpTo(S, n) == UNION {[1..k -> S] : k \in 0..n}

\* the i32 corner values
MaxI32 == 2147483647
MinI32 == (-2147483647) - 1

-----------------------------------------------------------------------------
(* wrap_detail *)

\* TextWrapResult
TextWrapResult(lines) == [lines |-> lines, row_count |-> Len(lines)]

\* the half-width comma is used as the separator
DetailSeparator_Ascii(current_line) ==
    IF current_line = <<>> THEN <<>> ELSE <<",">>

\* the separator put before a fragment
DetailSeparator(current_line) ==
    IF current_line = <<>> THEN <<>> ELSE <<"U+3001">>

\* the fragment is kept whole: the cut to max_len is forgotten
TruncateDetail_NoCut(detail, max_len) == detail

\* the end of the fragment is kept instead of its beginning
TruncateDetail_Tail(detail, max_len) ==
    IF Len(detail) > max_len
    THEN SubSeq(detail, Len(detail) - max_len + 1, Len(detail))
    ELSE detail

\* the line a fragment starts when it does not fit the current one
TruncateDetail(detail, max_len) ==
    IF Len(detail) > max_len THEN SubSeq(detail, 1, max_len) ELSE detail

\* the separator is left out of the length
DetailLineLength_NoSep(current_line, detail) == Len(current_line) + Len(detail)

\* new_line_length
DetailLineLength(current_line, detail) ==
    Len(current_line) + Len(DetailSeparator(current_line)) + Len(detail)

\* the line that is full is dropped instead of pushed
DetailPush_Drop(result, current_line) == result

\* a fragment does not fit: the current line is pushed if it is not empty
DetailPush(result, current_line) ==
    IF current_line # <<>> THEN Append(result, current_line) ELSE result

\* the line under construction is forgotten at the end of the loop
DetailFlush_Never(result, current_line) == result

\* the last line is pushed if it is not empty
DetailFlush(result, current_line) ==
    IF current_line # <<>> THEN Append(result, current_line) ELSE result

RECURSIVE WrapDetailLoop(_, _, _, _)
\* the loop over the fragments and the flush of the last line
WrapDetailLoop(details, max_len, result, current_line) ==
    IF details = <<>>
    THEN DetailFlush(result, current_line)
    ELSE LET detail == Head(details)
         IN  IF DetailLineLength(current_line, detail) <= max_len
             THEN WrapDetailLoop(Tail(details), max_len, result,
                      current_line \o DetailSeparator(current_line) \o detail)
             ELSE WrapDetailLoop(Tail(details), max_len,
                      DetailPush(result, current_line),
                      TruncateDetail(detail, max_len))

wrap_detail(details, max_len) ==
    IF details = <<>> THEN TextWrapResult(<<>>)
    ELSE TextWrapResult(FilterNonBlank(WrapDetailLoop(details, max_len, <<>>, <<>>)))

\* the fragments a detail list is drawn from
Fragments ==
    {<<>>, <<"a">>, <<" ">>, <<"a", "b">>, <<"U+3000", "b">>, <<"a", "b", "c">>}

\* no document is generated and no service call is under way
ServiceIdle ==
    /\ pages = <<>> /\ files = <<>> /\ requests = <<>> /\ task = <<>>
    /\ prints = <<>> /\ results = <<>>

\* no call of the page allocator is under way
PageIdle ==
    /\ ryohi_list = <<>> /\ idx = 0 /\ print_data = <<>> /\ actual_rows = 0
    /\ row = 0 /\ drawn_rows = 0 /\ current_row = 0 /\ ops = <<>>

InitDetail ==
    /\ pc = "start"
    /\ build = "release"          \* no arithmetic that can overflow is reached
    /\ args \in [details : SeqsUpTo(Fragments, MaxFrags), max_len : 1..MaxWidth]
    /\ ret = TextWrapResult(<<>>)
    /\ PageIdle
    /\ ServiceIdle

CallWrapDetail ==
    /\ pc = "start"
    /\ ret' = wrap_detail(args.details, args.max_len)
    /\ pc' = "done"
    /\ UNCHANGED <<svcVars, build, args, pageVars>>

NextDetail == CallWrapDetail

SpecDetail == InitDetail /\ [][NextDetail]_vars

RECURSIVE JoinDetails(_)
\* the fragments joined by the full-width comma
JoinDetails(details) ==
    IF details = <<>> THEN <<>>
    ELSE IF Len(details) = 1 THEN Head(details)
         ELSE Head(details) \o <<"U+3001">> \o JoinDetails(Tail(details))

\* C2 as stated: every detail list whose joined length is at most max_len
\* comes back as exactly one line, the fragments joined by the comma.
C2_Original ==
    (pc = "done" /\ Len(JoinDetails(args.details)) <= args.max_len)
        => ret.lines = <<JoinDetails(args.details)>>

\* C2 amended: a detail list whose first fragment is non-empty, whose joined
\* text is not whitespace-only and is at most max_len characters long comes
\* back as exactly one line, the fragments joined by the full-width comma.
C2_JoinedOneLine ==
    (/\ pc = "done"
     /\ args.details # <<>>
     /\ Head(args.details) # <<>>
     /\ ~IsBlank(JoinDetails(args.details))
     /\ Len(JoinDetails(args.details)) <= args.max_len)
        => (ret.lines = <<JoinDetails(args.details)>> /\ ret.row_count = 1)

C2_Witness ==
    /\ pc = "done"
    /\ Len(args.details) = 3
    /\ Head(args.details) # <<>>
    /\ args.details[2] = <<>>
    /\ Len(JoinDetails(args.details)) = args.max_len
    /\ ret.lines = <<JoinDetails(args.details)>>

\* C3: every line wrap_detail returns has at most max_len characters.
C3_LineWithinMax ==
    pc = "done" => \A k \in 1..Len(ret.lines) : Len(ret.lines[k]) <= args.max_len

\* an over-length fragment was cut to exactly max_len characters
C3_Witness ==
    /\ pc = "done"
    /\ \E j \in 1..Len(args.details) : Len(args.details[j]) > args.max_len
    /\ \E k \in 1..Len(ret.lines) :
          /\ Len(ret.lines[k]) = args.max_len
          /\ \E j \in 1..Len(args.details) :
                /\ Len(args.details[j]) > args.max_len
                /\ ret.lines[k] = SubSeq(args.details[j], 1, args.max_len)

-----------------------------------------------------------------------------
(* wrap_kukan *)

\* whether pat occurs in s at position k
MatchesAt(s, pat, k) ==
    /\ k + Len(pat) - 1 <= Len(s)
    /\ \A j \in 1..Len(pat) : s[k + j - 1] = pat[j]

RECURSIVE Concat(_, _, _)
\* the pieces lo..hi of a sequence of strings, joined
Concat(pieces, lo, hi) ==
    IF lo > hi THEN <<>>
    ELSE IF lo = hi THEN pieces[lo]
    ELSE Concat(pieces, lo, (lo + hi) \div 2) \o Concat(pieces, (lo + hi) \div 2 + 1, hi)

\* str::replace with a literal pattern no two occurrences of which can
\* overlap (true of the patterns replaced here: a single character, and two
\* strings whose first character does not occur in them again): every
\* occurrence is replaced
Replace(s, pat, rep) ==
    LET starts == {k \in 1..Len(s) : MatchesAt(s, pat, k)}
        piece(k) == IF k \in starts THEN rep
                    ELSE IF \E m \in starts : m < k /\ k < m + Len(pat) THEN <<>>
                    ELSE <<s[k]>>
    IN  Concat([k \in 1..Len(s) |-> piece(k)], 1, Len(s))

\* "_九州外空車適用" and what replaces it
PatKyushu == <<"_", "U+4E5D", "U+5DDE", "U+5916", "U+7A7A", "U+8ECA", "U+9069", "U+7528">>
RepKyushu == <<"U+3000", "U+4E5D", "U+5DDE", "U+5916", "U+7A7A", "U+8ECA", "U+9069", "U+7528">>
\* "適用*   追加" and what replaces it
PatTsuika == <<"U+9069", "U+7528", "*", " ", " ", " ", "U+8FFD", "U+52A0">>
RepTsuika == <<"U+9069", "U+7528", "*", "U+3000", "U+8FFD", "U+52A0">>

\* the three replacements made before the split
PreprocessKukan(kukan) ==
    Replace(Replace(Replace(kukan, PatKyushu, RepKyushu), PatTsuika, RepTsuika),
            <<" ">>, <<"U+3000">>)

\* length of the match of [　｜]| \||\| that starts at position k of s, 0 when
\* there is none
DelimLenAt(s, k) ==
    IF s[k] \in {"U+3000", "U+FF5C"} THEN 1
    ELSE IF s[k] = " " /\ k < Len(s) /\ s[k + 1] = "|" THEN 2
    ELSE IF s[k] = "|" THEN 1
    ELSE 0

\* where the matches found from left to right start: a '|' taken by the
\* " |" before it starts none
DelimStarts(s) ==
    {k \in 1..Len(s) : DelimLenAt(s, k) > 0 /\ ~(k > 1 /\ DelimLenAt(s, k - 1) = 2)}

\* re.split(&kukan): the text between the matches, empty pieces included
SplitKukan(s) ==
    LET starts == DelimStarts(s)
        n      == Cardinality(starts)
        nth(j) == CHOOSE k \in starts : Cardinality({m \in starts : m < k}) = j - 1
        from(j) == IF j = 1 THEN 1 ELSE nth(j - 1) + DelimLenAt(s, nth(j - 1))
        to(j)   == IF j = n + 1 THEN Len(s) ELSE nth(j) - 1
    IN  [j \in 1..(n + 1) |-> SubSeq(s, from(j), to(j))]

\* the sentinel line
Exceed == <<"e", "x", "c", "e", "e", "d", "*">>

\* an over-length segment is treated like any segment that does not fit
KukanStep_NoExceed(st, part, max_len) ==
    LET part_len == Len(part) IN
    IF st.current_count # 0 /\ st.current_count + part_len = max_len
    THEN [result |-> Append(st.result, st.current_line \o part),
          current_line |-> <<>>, current_count |-> 0]
    ELSE IF part_len = max_len /\ st.current_line = <<>>
    THEN [st EXCEPT !.result = Append(st.result, part), !.current_count = 0]
    ELSE IF st.current_count + part_len + 1 > max_len
    THEN [result |-> IF st.current_line # <<>>
                     THEN Append(st.result, st.current_line) ELSE st.result,
          current_line |-> part \o <<"U+3000">>,
          current_count |-> part_len + 1]
    ELSE [result |-> st.result,
          current_line |-> st.current_line \o part \o <<"U+3000">>,
          current_count |-> st.current_count + part_len + 1]

\* one turn of the packing loop
KukanStep(st, part, max_len) ==
    LET part_len == Len(part) IN
    IF st.current_count # 0 /\ st.current_count + part_len = max_len
    THEN [result |-> Append(st.result, st.current_line \o part),
          current_line |-> <<>>, current_count |-> 0]
    ELSE IF part_len = max_len /\ st.current_line = <<>>
    THEN [st EXCEPT !.result = Append(st.result, part), !.current_count = 0]
    ELSE IF part_len > max_len
    THEN [st EXCEPT !.result = Append(st.result, Exceed), !.current_count = 0]
    ELSE IF st.current_count + part_len + 1 > max_len
    THEN [result |-> IF st.current_line # <<>>
                     THEN Append(st.result, st.current_line) ELSE st.result,
          current_line |-> part \o <<"U+3000">>,
          current_count |-> part_len + 1]
    ELSE [result |-> st.result,
          current_line |-> st.current_line \o part \o <<"U+3000">>,
          current_count |-> st.current_count + part_len + 1]

RECURSIVE KukanLoop(_, _, _)
\* for part in parts
KukanLoop(st, parts, max_len) ==
    IF parts = <<>> THEN st
    ELSE KukanLoop(KukanStep(st, Head(parts), max_len), Tail(parts), max_len)

\* the pending line is dropped
KukanFlush_Never(st) == st.result

\* the flush of the last line
KukanFlush(st) ==
    IF st.current_count # 0 THEN Append(st.result, st.current_line) ELSE st.result

RECURSIVE TrimStart(_)
\* trim_start_matches('　')
TrimStart(s) ==
    IF s # <<>> /\ Head(s) = "U+3000" THEN TrimStart(Tail(s)) ELSE s

RECURSIVE TrimEnd(_)
\* trim_end_matches('　')
TrimEnd(s) ==
    IF s # <<>> /\ s[Len(s)] = "U+3000" THEN TrimEnd(SubSeq(s, 1, Len(s) - 1)) ELSE s

\* what is done to every line before it is returned
PostprocessLine(line) == TrimEnd(TrimStart(Replace(line, <<" ">>, <<"U+3000">>)))

wrap_kukan(kukan, max_len) ==
    IF kukan = <<>> THEN TextWrapResult(<<<<>>>>)
    ELSE LET parts == SplitKukan(PreprocessKukan(kukan))
             st    == KukanLoop([result |-> <<>>, current_line |-> <<>>,
                                 current_count |-> 0], parts, max_len)
             lines == KukanFlush(st)
         IN  TextWrapResult([k \in 1..Len(lines) |-> PostprocessLine(lines[k])])

\* the characters of the generated route strings
KukanChars == {"a", "b", " ", "|"}

\* route strings with full-width delimiters and with the two patterns that
\* are replaced
KukanSamples ==
    {<<"a", "U+3000", "b", "U+FF5C", "c">>,
     <<"a", "b", "c", "U+3000", "U+3000", "a", " ", "|", "b">>,
     <<"a">> \o PatKyushu,
     PatTsuika,
     <<"a", "b", " ", "a", "b", "c", "d">>,
     <<"a", "b", " ", "a", "b", "c", "d", " ", "a", "b">>,
     <<"a", "b", " ", "a", "b", "c", "a", "b", "c", " ", "a", "b", "c", "a", "b", "c", " ", "b">>}

Kukans == StringsUpTo(KukanChars, MaxKukanLen) \cup KukanSamples

InitKukan ==
    /\ pc = "start"
    /\ build = "release"          \* no arithmetic that can overflow is reached
    /\ args \in [kukan : Kukans, max_len : 1..MaxWidth]
    /\ ret = TextWrapResult(<<>>)
    /\ PageIdle
    /\ ServiceIdle

CallWrapKukan ==
    /\ pc = "start"
    /\ ret' = wrap_kukan(args.kukan, args.max_len)
    /\ pc' = "done"
    /\ UNCHANGED <<svcVars, build, args, pageVars>>

NextKukan == CallWrapKukan

SpecKukan == InitKukan /\ [][NextKukan]_vars

\* the segments of a route string: what the packing loop is run over
Segments(kukan) == IF kukan = <<>> THEN <<>> ELSE SplitKukan(PreprocessKukan(kukan))

\* the number of over-length segments
OverLength(kukan, max_len) ==
    Cardinality({k \in 1..Len(Segments(kukan)) : Len(Segments(kukan)[k]) > max_len})

\* the number of sentinel lines
ExceedLines(lines) == Cardinality({k \in 1..Len(lines) : lines[k] = Exceed})

\* C4: every segment longer than max_len makes wrap_kukan emit a line equal
\* to "exceed*": there are at least as many such lines as over-length segments.
C4_ExceedPerSegment ==
    pc = "done" => ExceedLines(ret.lines) >= OverLength(args.kukan, args.max_len)

\* two over-length segments among segments that fit, and two sentinel lines
C4_Witness ==
    /\ pc = "done"
    /\ OverLength(args.kukan, args.max_len) = 2
    /\ Len(Segments(args.kukan)) > 2
    /\ ExceedLines(ret.lines) = 2

\* C5: wrap_kukan returns at least one line, row_count is the number of
\* lines, and the empty string gives exactly one line, which is empty.
C5_AtLeastOneLine ==
    pc = "done" =>
        /\ Len(ret.lines) >= 1
        /\ ret.row_count = Len(ret.lines)
        /\ (args.kukan = <<>> => ret.lines = <<<<>>>>)

\* the empty string came back as one empty line
C5_WitnessEmpty ==
    pc = "done" /\ args.kukan = <<>> /\ ret.lines = <<<<>>>> /\ ret.row_count = 1

-----------------------------------------------------------------------------
(* format_price *)

Reverse(s) == [k \in 1..Len(s) |-> s[Len(s) + 1 - k]]

DigitChar(d) == <<"0", "1", "2", "3", "4", "5", "6", "7", "8", "9">>[d + 1]

RECURSIVE NatToString(_)
\* to_string of a number >= 0
NatToString(n) ==
    IF n < 10 THEN <<DigitChar(n)>>
    ELSE Append(NatToString(n \div 10), DigitChar(n % 10))

\* i32::to_string; the digits of a negative number are taken without negating
\* it, as i32::MIN has no positive counterpart
I32ToString(n) ==
    IF n >= 0 THEN NatToString(n)
    ELSE LET m    == n % 10
             last == (10 - m) % 10
             rest == (-(n \div 10)) - (IF m # 0 THEN 1 ELSE 0)
         IN  <<"-">> \o (IF rest = 0 THEN <<>> ELSE NatToString(rest))
                     \o <<DigitChar(last)>>

\* price.abs(): i32::MIN overflows, which panics where overflow checks are on
\* (debug builds) and wraps to i32::MIN where they are off (release builds)
I32Abs(price) ==
    [panicked |-> (price = MinI32 /\ build = "debug"),
     value    |-> IF price = MinI32 THEN MinI32
                  ELSE IF price < 0 THEN -price ELSE price]

RECURSIVE GroupLoop(_, _)
\* the loop over the reversed characters: a ',' before every third one
GroupLoop(chars, i) ==
    IF i >= Len(chars) THEN <<>>
    ELSE (IF i > 0 /\ i % 3 = 0 THEN <<",">> ELSE <<>>)
             \o <<chars[i + 1]>> \o GroupLoop(chars, i + 1)

format_price(price) ==
    LET a      == I32Abs(price)
        chars  == Reverse(I32ToString(a.value))
        result == GroupLoop(chars, 0) \o (IF price < 0 THEN <<"-">> ELSE <<>>)
    IN  [panicked |-> a.panicked,
         s        |-> IF a.panicked THEN <<>> ELSE Reverse(result)]

\* the amounts format_price is run on
Amounts ==
    ((-MaxAmount)..MaxAmount)
        \cup {MinI32, MinI32 + 1, MaxI32, -1234567, -999999, -100000, -12345,
              12345, 100000, 999999, 1000000, 1234567, 1000000000}

InitPrice ==
    /\ pc = "start"
    /\ build \in {"debug", "release"}
    /\ args \in [price : Amounts]
    /\ ret = [panicked |-> FALSE, s |-> <<>>]
    /\ PageIdle
    /\ ServiceIdle

CallFormatPrice ==
    /\ pc = "start"
    /\ ret' = format_price(args.price)
    /\ pc' = IF format_price(args.price).panicked THEN "panic" ELSE "done"
    /\ UNCHANGED <<svcVars, build, args, pageVars>>

NextPrice == CallFormatPrice

SpecPrice == InitPrice /\ [][NextPrice]_vars

RECURSIVE RemoveCommas(_)
RemoveCommas(s) ==
    IF s = <<>> THEN <<>>
    ELSE IF Head(s) = "," THEN RemoveCommas(Tail(s))
         ELSE <<Head(s)>> \o RemoveCommas(Tail(s))

DigitChars == {"0", "1", "2", "3", "4", "5", "6", "7", "8", "9"}

\* digits grouped in threes from the right: counted from the right, every
\* fourth character is a ',' and every other one a digit, and the string
\* does not start with a ','
GroupedInThrees(s) ==
    /\ s # <<>>
    /\ s[1] \in DigitChars
    /\ \A k \in 1..Len(s) :
          IF (Len(s) + 1 - k) % 4 = 0 THEN s[k] = "," ELSE s[k] \in DigitChars

\* C9 as stated: for every i32 amount format_price returns the digits of the
\* absolute value grouped in threes, preceded by a single '-' exactly when the
\* amount is negative; without the commas it is the decimal representation.
C9_PriceFormat ==
    pc # "start" =>
        /\ pc = "done"
        /\ RemoveCommas(ret.s) = I32ToString(args.price)
        /\ IF args.price < 0
           THEN Head(ret.s) = "-" /\ GroupedInThrees(Tail(ret.s))
           ELSE GroupedInThrees(ret.s)

-----------------------------------------------------------------------------
(* align_rows *)

\* Option<T>: None is the empty sequence, Some(v) the sequence of v alone
None == <<>>
Some(v) == <<v>>
IsSome(o) == o # <<>>
Unwrap(o) == o[1]
Option(S) == {None} \cup {Some(v) : v \in S}

\* byte offset at which the k-th character of s starts (k from 1)
ByteOffset(s, k) == ByteLen(SubSeq(s, 1, k - 1))

\* str::is_char_boundary
IsCharBoundary(s, b) ==
    \/ b = ByteLen(s)
    \/ \E k \in 1..Len(s) : ByteOffset(s, k) = b

\* &s[from..to]: a byte range; it panics unless both ends are character
\* boundaries of s
ByteSlice(s, from, to) ==
    LET inside == {k \in 1..Len(s) : from <= ByteOffset(s, k) /\ ByteOffset(s, k) < to}
    IN  [panicked |-> ~(from <= to /\ IsCharBoundary(s, from) /\ IsCharBoundary(s, to)),
         s        |-> [j \in 1..Cardinality(inside) |->
                          s[(CHOOSE k \in inside : \A m \in inside : k <= m) + j - 1]]]

\* date_str.len() >= 10 && date_str.chars().nth(4) == Some('-')
\*                       && date_str.chars().nth(7) == Some('-')
DateMatches(date_str) ==
    /\ ByteLen(date_str) >= 10
    /\ Len(date_str) >= 5 /\ date_str[5] = "-"
    /\ Len(date_str) >= 8 /\ date_str[8] = "-"

\* what is put in date_arr[0] for a present date
FormatDate(date_str) ==
    IF DateMatches(date_str)
    THEN LET month == ByteSlice(date_str, 5, 7)
             day   == ByteSlice(date_str, 8, 10)
         IN  [panicked |-> month.panicked \/ day.panicked,
              s        |-> month.s \o <<"/">> \o day.s]
    ELSE [panicked |-> FALSE, s |-> date_str]

\* format!("{:.1}", vol) of the f64 nearest to tenths/10, tenths >= 0
FormatVol(tenths) == NatToString(tenths \div 10) \o <<".">> \o <<DigitChar(tenths % 10)>>

\* vec![String::new(); max_rows]
BlankRows(max_rows) == [k \in 1..max_rows |-> <<>>]

\* the value is written to every row
SetFirst_EveryRow(arr, v) == [k \in DOMAIN arr |-> v]

\* arr[0] = v
SetFirst(arr, v) == [arr EXCEPT ![1] = v]

align_rows(date, dest, price, vol, max_rows) ==
    LET blank  == BlankRows(max_rows)
        fdate  == IF IsSome(date) THEN FormatDate(Unwrap(date))
                  ELSE [panicked |-> FALSE, s |-> <<>>]
        fprice == IF IsSome(price) THEN format_price(Unwrap(price))
                  ELSE [panicked |-> FALSE, s |-> <<>>]
    IN  IF max_rows = 0 /\ (IsSome(date) \/ IsSome(dest) \/ IsSome(price) \/ IsSome(vol))
        THEN [panicked |-> TRUE, date_arr |-> <<>>, dest_arr |-> <<>>,
              price_arr |-> <<>>, vol_arr |-> <<>>]
        ELSE IF fdate.panicked \/ fprice.panicked
        THEN [panicked |-> TRUE, date_arr |-> <<>>, dest_arr |-> <<>>,
              price_arr |-> <<>>, vol_arr |-> <<>>]
        ELSE [panicked  |-> FALSE,
              date_arr  |-> IF IsSome(date) THEN SetFirst(blank, fdate.s) ELSE blank,
              dest_arr  |-> IF IsSome(dest) THEN SetFirst(blank, Unwrap(dest)) ELSE blank,
              price_arr |-> IF IsSome(price) THEN SetFirst(blank, fprice.s) ELSE blank,
              vol_arr   |-> IF IsSome(vol) THEN SetFirst(blank, FormatVol(Unwrap(vol)))
                            ELSE blank]

\* "2024-01-15"
DateTemplate == <<"2", "0", "2", "4", "-", "0", "1", "-", "1", "5">>

\* the date with the characters at the positions W replaced by U+3042
WithWide(W) == [k \in 1..10 |-> IF k \in W THEN "U+3042" ELSE DateTemplate[k]]

\* the dates align_rows is run on: the template with up to MaxWide characters
\* replaced by a three-byte one, whole and cut to nine characters, and some
\* strings of another shape
Dates ==
    LET wide == {WithWide(W) : W \in {W \in SUBSET (1..10) : Cardinality(W) <= MaxWide}}
    IN  wide \cup {SubSeq(d, 1, 9) : d \in wide}
             \cup {<<>>, <<"1", "/", "5">>, DateTemplate \o <<"T">>,
                   <<"2", "0", "2", "4", "/", "0", "1", "/", "1", "5">>,
                   <<"2", "0", "2", "4", "0", "1", "1", "5", "-", "-">>}

\* "東京"
Tokyo == <<"U+6771", "U+4EAC">>

InitAlign ==
    /\ pc = "start"
    /\ build = "release"          \* the amounts here do not overflow
    /\ args \in [date : Option(Dates), dest : Option({Tokyo}),
                 price : Option({1000, -5}), vol : Option({15}),
                 max_rows : 1..MaxRows]
    /\ ret = [panicked |-> FALSE, date_arr |-> <<>>, dest_arr |-> <<>>,
              price_arr |-> <<>>, vol_arr |-> <<>>]
    /\ PageIdle
    /\ ServiceIdle

CallAlignRows ==
    /\ pc = "start"
    /\ ret' = align_rows(args.date, args.dest, args.price, args.vol, args.max_rows)
    /\ pc' = IF align_rows(args.date, args.dest, args.price, args.vol,
                           args.max_rows).panicked
             THEN "panic" ELSE "done"
    /\ UNCHANGED <<svcVars, build, args, pageVars>>

NextAlign == CallAlignRows

SpecAlign == InitAlign /\ [][NextAlign]_vars

\* a sequence of row_count strings of which only the first may be non-empty,
\* and is empty too when the field is absent
FirstRowOnly(arr, field, row_count) ==
    /\ Len(arr) = row_count
    /\ \A k \in 2..Len(arr) : arr[k] = <<>>
    /\ (~IsSome(field) => arr[1] = <<>>)

\* C6: for every combination of present and absent fields and every
\* row_count >= 1, the four sequences align_rows returns have exactly
\* row_count entries, all empty except possibly the first, which is empty
\* when the field is absent.
C6_AlignShape ==
    pc = "done" =>
        /\ FirstRowOnly(ret.date_arr, args.date, args.max_rows)
        /\ FirstRowOnly(ret.dest_arr, args.dest, args.max_rows)
        /\ FirstRowOnly(ret.price_arr, args.price, args.max_rows)
        /\ FirstRowOnly(ret.vol_arr, args.vol, args.max_rows)

\* three rows, the date absent and the other fields present
C6_Witness ==
    /\ pc = "done"
    /\ args.max_rows = 3
    /\ ~IsSome(args.date) /\ IsSome(args.dest) /\ IsSome(args.price) /\ IsSome(args.vol)
    /\ ret.date_arr = <<<<>>, <<>>, <<>>>>
    /\ ret.dest_arr = <<Tokyo, <<>>, <<>>>>
    /\ ret.price_arr[1] = <<"1", ",", "0", "0", "0">>
    /\ ret.vol_arr[1] = <<"1", ".", "5">>

\* the YYYY-MM-DD shape, in characters: at least ten of them, with '-' at
\* positions 4 and 7 (counted from 0)
HasDateShape(s) == Len(s) >= 10 /\ s[5] = "-" /\ s[8] = "-"

\* C7 as stated: align_rows completes without failure for every input with
\* row_count >= 1, whatever the date string holds, and a date that does not
\* have the YYYY-MM-DD shape is passed through unmodified.
C7_Total ==
    pc # "start" =>
        /\ pc = "done"
        /\ (IsSome(args.date) /\ ~HasDateShape(Unwrap(args.date)))
               => ret.date_arr[1] = Unwrap(args.date)

\* C8 as stated: a present date of length >= 10 with '-' at positions 4 and 7
\* is rendered as the characters at positions 5-6, a '/', and the characters
\* at positions 8-9; every other present date is placed verbatim.
C8_DateFormat ==
    (pc # "start" /\ IsSome(args.date)) =>
        /\ pc = "done"
        /\ ret.date_arr[1] =
              IF HasDateShape(Unwrap(args.date))
              THEN SubSeq(Unwrap(args.date), 6, 7) \o <<"/">>
                       \o SubSeq(Unwrap(args.date), 9, 10)
              ELSE Unwrap(args.date)

-----------------------------------------------------------------------------
(* prepare_ryohi_for_print *)

\* the blank lines are dropped but the rest is not padded
extend_to_max_rows_NoPad(lines, max_rows) == FilterNonBlank(lines)

\* the blank padding is put in front of the lines instead of behind them
extend_to_max_rows_PadFront(lines, max_rows) ==
    LET filtered_lines == FilterNonBlank(lines)
        pad == max_rows - Len(filtered_lines)
    IN  IF Len(filtered_lines) < max_rows
        THEN [k \in 1..max_rows |-> IF k > pad THEN filtered_lines[k - pad] ELSE <<>>]
        ELSE filtered_lines

\* the lines are padded but the blank ones are not dropped first
extend_to_max_rows_NoFilter(lines, max_rows) ==
    IF Len(lines) < max_rows
    THEN [k \in 1..max_rows |-> IF k <= Len(lines) THEN lines[k] ELSE <<>>]
    ELSE lines

extend_to_max_rows(lines, max_rows) ==
    LET filtered_lines == FilterNonBlank(lines)
    IN  IF Len(filtered_lines) < max_rows
        THEN [k \in 1..max_rows |->
                 IF k <= Len(filtered_lines) THEN filtered_lines[k] ELSE <<>>]
        ELSE filtered_lines

\* usize::max
Max(a, b) == IF a >= b THEN a ELSE b

\* usize::min
Min(a, b) == IF a <= b THEN a ELSE b

\* detail_result
DetailResult(ryohi, max_detail_len) ==
    IF ryohi.detail # <<>> THEN wrap_detail(ryohi.detail, max_detail_len)
    ELSE TextWrapResult(<<<<>>>>)

\* kukan_result
KukanResult(ryohi, max_kukan_len) ==
    IF IsSome(ryohi.kukan) THEN wrap_kukan(Unwrap(ryohi.kukan), max_kukan_len)
    ELSE TextWrapResult(<<<<>>>>)

prepare_ryohi_for_print(ryohi, max_detail_len, max_kukan_len) ==
    LET detail_result == DetailResult(ryohi, max_detail_len)
        kukan_result  == KukanResult(ryohi, max_kukan_len)
        max_rows      == Max(Max(detail_result.row_count, kukan_result.row_count), 1)
        aligned       == align_rows(ryohi.date, ryohi.dest, ryohi.price, ryohi.vol,
                                    max_rows)
    IN  IF aligned.panicked
        THEN [panicked |-> TRUE, date_lines |-> <<>>, dest_lines |-> <<>>,
              detail_lines |-> <<>>, kukan_lines |-> <<>>, price_lines |-> <<>>,
              vol_lines |-> <<>>, max_rows |-> 0]
        ELSE [panicked     |-> FALSE,
              date_lines   |-> aligned.date_arr,
              dest_lines   |-> aligned.dest_arr,
              detail_lines |-> extend_to_max_rows(detail_result.lines, max_rows),
              kukan_lines  |-> extend_to_max_rows(kukan_result.lines, max_rows),
              price_lines  |-> aligned.price_arr,
              vol_lines    |-> aligned.vol_arr,
              max_rows     |-> max_rows]

\* Ryohi, the fields prepare_ryohi_for_print reads
Ryohi(date, dest, detail, kukan, price, vol) ==
    [date |-> date, dest |-> dest, detail |-> detail, kukan |-> kukan,
     price |-> price, vol |-> vol]

\* the scalar fields of the records formatted: all absent, all present, the
\* date alone, and a date on which align_rows panics
RecordScalars ==
    {[date |-> None, dest |-> None, price |-> None, vol |-> None],
     [date |-> Some(DateTemplate), dest |-> Some(Tokyo), price |-> Some(1000),
      vol |-> Some(15)],
     [date |-> Some(<<"1", "/", "5">>), dest |-> None, price |-> None, vol |-> None],
     [date |-> Some(WithWide({9})), dest |-> Some(Tokyo), price |-> None,
      vol |-> None]}

\* the fragments of the records formatted
RecordFragments == {<<>>, <<"a">>, <<" ">>, <<" ", "a">>, <<"a", "b", "c">>}

\* the routes of the records formatted
RecordKukans ==
    {<<>>, <<" ">>, <<"\t">>, <<"a">>, <<" ", " ", "a">>, <<"a", " ", "b">>,
     <<"a", "|", "|", "b">>,
     <<"a", "b", "c", "a", " ", "b", " ", "a", "b", " ", "c">>,
     <<"a", " ", "a", "b", "c", "a", "b", " ", "b">>}

\* the maximum widths of the records formatted
RecordWidths == {1, 3}

RecordArgs ==
    {[ryohi |-> Ryohi(sc.date, sc.dest, detail, kukan, sc.price, sc.vol),
      max_detail_len |-> dw, max_kukan_len |-> kw] :
        sc \in RecordScalars, detail \in SeqsUpTo(RecordFragments, MaxFrags),
        kukan \in Option(RecordKukans), dw \in RecordWidths, kw \in RecordWidths}

InitRecord ==
    /\ pc = "start"
    /\ build = "release"          \* the amounts here do not overflow
    /\ args \in RecordArgs
    /\ ret = [panicked |-> FALSE, date_lines |-> <<>>, dest_lines |-> <<>>,
              detail_lines |-> <<>>, kukan_lines |-> <<>>, price_lines |-> <<>>,
              vol_lines |-> <<>>, max_rows |-> 0]
    /\ PageIdle
    /\ ServiceIdle

CallPrepareRyohi ==
    /\ pc = "start"
    /\ ret' = prepare_ryohi_for_print(args.ryohi, args.max_detail_len,
                                      args.max_kukan_len)
    /\ pc' = IF prepare_ryohi_for_print(args.ryohi, args.max_detail_len,
                                        args.max_kukan_len).panicked
             THEN "panic" ELSE "done"
    /\ UNCHANGED <<svcVars, build, args, pageVars>>

NextRecord == CallPrepareRyohi

SpecRecord == InitRecord /\ [][NextRecord]_vars

\* the row count a wrap function gave, or 1 for the substituted blank line
DetailRows == DetailResult(args.ryohi, args.max_detail_len).row_count
RouteRows == KukanResult(args.ryohi, args.max_kukan_len).row_count

\* C1: the six sequences of the PrintRow format_record returns have the same
\* length, and that length is max_rows = max(detail_rows, route_rows, 1).
C1_SixEqualLengths ==
    pc = "done" =>
        /\ ret.max_rows = Max(Max(DetailRows, RouteRows), 1)
        /\ \A column \in {ret.date_lines, ret.dest_lines, ret.detail_lines,
                          ret.kukan_lines, ret.price_lines, ret.vol_lines} :
               Len(column) = ret.max_rows

\* the route wrapped to more lines than the detail, and the detail was padded
C1_Witness ==
    /\ pc = "done"
    /\ DetailRows = 2 /\ RouteRows = 4
    /\ ret.max_rows = 4
    /\ Len(ret.detail_lines) = 4 /\ Len(ret.date_lines) = 4
    /\ ret.detail_lines[3] = <<>>

-----------------------------------------------------------------------------
(* add_ryohi_items *)

\* MAX_DETAIL_LENGTH, MAX_KUKAN_LENGTH
MAX_DETAIL_LENGTH == 10
MAX_KUKAN_LENGTH == 22
\* the logical rows of a page: the 14 of add_ryohi_items
PageRows == 14

\* an entry counts as content unless it is the empty string
HasContentAt_NonEmpty(lines, r) == r < Len(lines) /\ lines[r + 1] # <<>>

\* the entry of a column at a row, as has_content_in_row reads it
HasContentAt(lines, r) == r < Len(lines) /\ ~IsBlank(lines[r + 1])

\* RyohiPrintData::has_content_in_row, row counted from 0
has_content_in_row(data, r) ==
    IF /\ r >= Len(data.date_lines) /\ r >= Len(data.dest_lines)
       /\ r >= Len(data.detail_lines) /\ r >= Len(data.kukan_lines)
       /\ r >= Len(data.price_lines) /\ r >= Len(data.vol_lines)
    THEN FALSE
    ELSE \/ HasContentAt(data.date_lines, r)
         \/ HasContentAt(data.dest_lines, r)
         \/ HasContentAt(data.detail_lines, r)
         \/ HasContentAt(data.kukan_lines, r)
         \/ HasContentAt(data.price_lines, r)
         \/ HasContentAt(data.vol_lines, r)

\* get_date .. get_vol: the entry, or "" out of range
GetLine(lines, r) == IF r < Len(lines) THEN lines[r + 1] ELSE <<>>

\* every logical row gets a physical row of its own
PhysicalRow_OnePerRow(logical_row) == logical_row

\* physical_row
PhysicalRow(logical_row) == logical_row \div 2

\* sub_row
SubRow(logical_row) == logical_row % 2

\* the text operations of one drawn row: one per column whose text is not
\* empty, in the order date, dest, detail, kukan, price, vol
RowOps(data, r, logical_row) ==
    LET texts == <<GetLine(data.date_lines, r), GetLine(data.dest_lines, r),
                   GetLine(data.detail_lines, r), GetLine(data.kukan_lines, r),
                   GetLine(data.price_lines, r), GetLine(data.vol_lines, r)>>
        cols  == <<"date", "dest", "detail", "kukan", "price", "vol">>
        shown == SelectSeq(<<1, 2, 3, 4, 5, 6>>, LAMBDA c : texts[c] # <<>>)
    IN  [j \in 1..Len(shown) |->
            [column       |-> cols[shown[j]],
             logical_row  |-> logical_row,
             physical_row |-> PhysicalRow(logical_row),
             sub_row      |-> SubRow(logical_row),
             text         |-> texts[shown[j]]]]

\* the rows of the record are not cut to the rows left on the page
ActualRows_NoClamp(max_rows, remaining_rows) == max_rows

\* actual_rows
ActualRows(max_rows, remaining_rows) == Min(max_rows, remaining_rows)

\* the page is never taken to be full
PageFull_Never(rows) == FALSE

\* if current_row >= 14
PageFull(rows) == rows >= PageRows

\* the rows examined are charged, drawn or not
Advance_ByExamined(rows, drawn, examined) == rows + examined

\* current_row += drawn_rows
Advance(rows, drawn, examined) == rows + drawn

\* c repeated n times
Repeat(c, n) == [k \in 1..n |-> c]

\* the records of the items printed: an empty record, a one-row record, a
\* record whose only field is a blank destination, records of three and of
\* sixteen detail lines, and a record of five route lines with an over-length
\* segment
RecEmpty == Ryohi(None, None, <<>>, None, None, None)
RecOne == Ryohi(Some(DateTemplate), Some(Tokyo), <<<<"a", "b">>>>,
                Some(<<"a", " ", "b">>), Some(1000), Some(15))
RecBlankDest == Ryohi(None, Some(<<" ">>), <<>>, None, None, None)
RecThree == Ryohi(Some(<<"1", "/", "5">>), None, Repeat(Repeat("a", 6), 3), None,
                  None, None)
RecSixteen == Ryohi(None, Some(Tokyo), Repeat(Repeat("b", 6), 16), None,
                    Some(-5), None)
RecFive == Ryohi(None, None, <<<<"c">>>>,
                 Some(Repeat("a", 12) \o <<" ">> \o Repeat("b", 23) \o <<"|">>
                      \o Repeat("c", 12) \o <<" ">> \o Repeat("a", 12) \o <<"U+3000">>
                      \o Repeat("b", 12)),
                 None, Some(10))

\* a record whose route wraps to a blank line followed by a place name
RecBlankLine == Ryohi(None, None, <<>>, Some(Repeat(" ", 23) \o <<"a">>), None, None)
\* a record on whose date align_rows panics
RecPanic == Ryohi(Some(WithWide({9})), None, <<<<"a">>>>, None, None, None)

\* a record with a date and a whitespace-only destination
RecDatedBlankDest == Ryohi(Some(DateTemplate), Some(<<" ">>), <<>>, None, None, None)

PageRecords ==
    {RecEmpty, RecOne, RecBlankDest, RecThree, RecSixteen, RecFive, RecBlankLine,
     RecPanic, RecDatedBlankDest}

NoPrintData ==
    [panicked |-> FALSE, date_lines |-> <<>>, dest_lines |-> <<>>,
     detail_lines |-> <<>>, kukan_lines |-> <<>>, price_lines |-> <<>>,
     vol_lines |-> <<>>, max_rows |-> 0]

InitPage ==
    /\ pc = "loop"
    /\ build = "release"          \* the amounts here do not overflow
    /\ args = <<>>
    /\ ret = <<>>
    /\ ryohi_list \in SeqsUpTo(PageRecords, MaxRecords)
    /\ idx = 0
    /\ print_data = NoPrintData
    /\ actual_rows = 0
    /\ row = 0
    /\ drawn_rows = 0
    /\ current_row = 0
    /\ ops = <<>>
    /\ ServiceIdle

\* the head of the outer loop: the next record is prepared
BeginRecord ==
    /\ pc = "loop"
    /\ idx < Len(ryohi_list)
    /\ ~PageFull(current_row)
    /\ LET data == prepare_ryohi_for_print(ryohi_list[idx + 1], MAX_DETAIL_LENGTH,
                                           MAX_KUKAN_LENGTH)
       IN  /\ print_data' = data
           /\ actual_rows' = ActualRows(data.max_rows, PageRows - current_row)
           /\ pc' = IF data.panicked THEN "panic" ELSE "row"
    /\ row' = 0
    /\ drawn_rows' = 0
    /\ UNCHANGED <<svcVars, build, args, ret, ryohi_list, idx, current_row, ops>>

\* a row without content: continue
SkipRow ==
    /\ pc = "row"
    /\ row < actual_rows
    /\ ~has_content_in_row(print_data, row)
    /\ row' = row + 1
    /\ UNCHANGED <<svcVars, pc, build, args, ret, ryohi_list, idx, print_data, actual_rows,
                   drawn_rows, current_row, ops>>

\* a row with content: its texts are placed at the next logical row
DrawRow ==
    /\ pc = "row"
    /\ row < actual_rows
    /\ has_content_in_row(print_data, row)
    /\ ops' = ops \o RowOps(print_data, row, current_row + drawn_rows)
    /\ drawn_rows' = drawn_rows + 1
    /\ row' = row + 1
    /\ UNCHANGED <<svcVars, pc, build, args, ret, ryohi_list, idx, print_data, actual_rows,
                   current_row>>

\* the end of the inner loop: current_row += drawn_rows; the locals of the
\* loop body go out of scope
EndRecord ==
    /\ pc = "row"
    /\ row >= actual_rows
    /\ current_row' = Advance(current_row, drawn_rows, actual_rows)
    /\ idx' = idx + 1
    /\ pc' = "loop"
    /\ print_data' = NoPrintData
    /\ actual_rows' = 0
    /\ row' = 0
    /\ drawn_rows' = 0
    /\ UNCHANGED <<svcVars, build, args, ret, ryohi_list, ops>>

\* if current_row >= 14 { break }
BreakFull ==
    /\ pc = "loop"
    /\ idx < Len(ryohi_list)
    /\ PageFull(current_row)
    /\ pc' = "done"
    /\ UNCHANGED <<svcVars, build, args, ret, pageVars>>

\* the records are exhausted
EndList ==
    /\ pc = "loop"
    /\ idx >= Len(ryohi_list)
    /\ pc' = "done"
    /\ UNCHANGED <<svcVars, build, args, ret, pageVars>>

NextPage ==
    \/ BeginRecord
    \/ SkipRow
    \/ DrawRow
    \/ EndRecord
    \/ BreakFull
    \/ EndList

SpecPage == InitPage /\ [][NextPage]_vars

\* the logical rows that were drawn
DrawnRows == {ops[k].logical_row : k \in 1..Len(ops)}

\* C10: while a page is assembled the consumed-row counter starts at 0,
\* never decreases and never exceeds 14; at most 14 rows are drawn and every
\* drawn row has its logical index in 0..13 and its physical_row in 0..6.
C10_RowBudget ==
    /\ current_row = 0
    /\ [](/\ current_row \in 0..14
          /\ current_row + drawn_rows <= 14
          /\ Cardinality(DrawnRows) <= 14
          /\ \A k \in 1..Len(ops) :
                ops[k].logical_row \in 0..13 /\ ops[k].physical_row \in 0..6)
    /\ [][current_row' >= current_row]_vars

\* the page is full and records are left over: fourteen rows were drawn, the
\* last one at logical row 13 in physical row 6
C10_Witness ==
    /\ pc = "done"
    /\ current_row = 14
    /\ idx < Len(ryohi_list)
    /\ ops[Len(ops)].logical_row = 13
    /\ ops[Len(ops)].physical_row = 6
    /\ Cardinality(DrawnRows) = 14

\* the rows of a prepared record that have content
ContentRows(data) ==
    Cardinality({r \in 0..(data.max_rows - 1) : has_content_in_row(data, r)})

\* C11: when a record is finished the budget advances by exactly the number
\* of rows drawn for it, and that number is the smaller of the record's
\* content-bearing rows and the budget left before the record.
C11_BudgetAdvance ==
    [][(pc = "row" /\ pc' = "loop") =>
          /\ current_row' - current_row =
                 Cardinality({l \in DrawnRows : l >= current_row})
          /\ current_row' - current_row =
                 Min(ContentRows(print_data), 14 - current_row)]_vars

\* a record with a blank padding row cost one row, and the last record was
\* cut to the ten rows that were left
C11_Witness ==
    /\ pc = "loop"
    /\ ryohi_list = <<RecThree, RecBlankLine, RecSixteen>>
    /\ idx = 3
    /\ current_row = 14
    /\ Cardinality(DrawnRows) = 14

\* C12: once 14 logical rows are consumed no further draw instruction is
\* emitted, for the rest of the current record or for any later record; the
\* rest is dropped without an error, and the page ends with the 14 rows.
C12_StopWhenFull ==
    /\ [][(current_row + drawn_rows >= 14) => (ops' = ops /\ pc' # "panic")]_vars
    /\ []((pc = "done" /\ current_row >= 14) => Cardinality(DrawnRows) = 14)

\* the page was filled in the middle of the second record; the third record,
\* which cannot be prepared, was never looked at
C12_Witness ==
    /\ pc = "done"
    /\ ryohi_list = <<RecOne, RecSixteen, RecPanic>>
    /\ idx = 2
    /\ current_row = 14
    /\ ops[Len(ops)].logical_row = 13

\* the (physical_row, sub_row) slots that hold a draw instruction
Slots(instructions) ==
    {<<instructions[j].physical_row, instructions[j].sub_row>> :
        j \in 1..Len(instructions)}

\* C13: the k-th row drawn on a page, k counted from 0 over all the records,
\* goes to physical_row = k div 2 and sub_row = k mod 2: with k slots taken,
\* the instructions of the next drawn row all go to slot k, so that no slot is
\* shared and the slots fill in increasing order without gaps.
C13_SlotOrder ==
    [][ops' # ops =>
          LET k == Cardinality(Slots(ops))
          IN  /\ Len(ops') > Len(ops)
              /\ SubSeq(ops', 1, Len(ops)) = ops
              /\ \A j \in (Len(ops) + 1)..Len(ops') :
                    /\ ops'[j].physical_row = k \div 2
                    /\ ops'[j].sub_row = k % 2]_vars

\* a page of an empty record, a record with an over-length route segment and a
\* long record: all fourteen slots are taken
C13_Witness ==
    /\ pc = "done"
    /\ ryohi_list = <<RecEmpty, RecFive, RecSixteen>>
    /\ Slots(ops) = (0..6) \X {0, 1}

-----------------------------------------------------------------------------
(* has_content_in_row *)

\* the entries of the wrapped columns: empty, whitespace-only, with content
Cells == {<<>>, <<"U+3000", " ">>, <<"a">>}

\* the scalar columns: no row, a blank row, a blank row and a row with content
ScalarColumns == {<<>>, <<<<>>, <<"x">>>>}

\* the print rows queried; the six sequences need not have the same length
ContentArgs ==
    [data : [date_lines : ScalarColumns, dest_lines : ScalarColumns,
             detail_lines : SeqsUpTo(Cells, MaxLines),
             kukan_lines : SeqsUpTo(Cells, MaxLines),
             price_lines : ScalarColumns, vol_lines : ScalarColumns],
     row : 0..(MaxLines + 1)]

InitContent ==
    /\ pc = "start"
    /\ build = "release"          \* no arithmetic that can overflow is reached
    /\ args \in ContentArgs
    /\ ret = FALSE
    /\ PageIdle
    /\ ServiceIdle

CallHasContent ==
    /\ pc = "start"
    /\ ret' = has_content_in_row(args.data, args.row)
    /\ pc' = "done"
    /\ UNCHANGED <<svcVars, build, args, pageVars>>

NextContent == CallHasContent

SpecContent == InitContent /\ [][NextContent]_vars

\* the six sequences of a print row
Columns(data) ==
    {data.date_lines, data.dest_lines, data.detail_lines, data.kukan_lines,
     data.price_lines, data.vol_lines}

\* C14: has_content_in_row(i) is true exactly when one of the six sequences
\* has an entry at index i with a character that is not whitespace; it is
\* false when i is out of range of all six, whatever their lengths.
C14_HasContent ==
    pc = "done" =>
        /\ ret = (\E column \in Columns(args.data) :
                     /\ args.row < Len(column)
                     /\ \E k \in 1..Len(column[args.row + 1]) :
                           ~IsWhitespace(column[args.row + 1][k]))
        /\ (\A column \in Columns(args.data) : args.row >= Len(column)) => ret = FALSE

\* the sequences have different lengths; row 1 is out of range of some, holds
\* a whitespace-only entry in one and content in another
C14_Witness ==
    /\ pc = "done"
    /\ args.row = 1
    /\ Len(args.data.date_lines) = 0
    /\ Len(args.data.detail_lines) = 2
    /\ args.data.detail_lines[2] = <<"U+3000", " ">>
    /\ Len(args.data.kukan_lines) = 1
    /\ args.data.vol_lines = <<<<>>, <<"x">>>>
    /\ ret = TRUE

-----------------------------------------------------------------------------
(* wrap_detail: the number of lines *)

\* the part of a fragment that survives the cut to max_len
Kept(detail, max_len) == SubSeq(detail, 1, Min(Len(detail), max_len))

\* C16 as stated: wrap_detail returns zero lines only when the fragment list
\* is empty, at least one line for every other list, and row_count is the
\* number of lines.
C16_Original ==
    pc = "done" =>
        /\ (ret.lines = <<>> <=> args.details = <<>>)
        /\ ret.row_count = Len(ret.lines)

\* C16 amended: the empty list gives zero lines; a list with a fragment whose
\* first max_len characters hold a character that is not whitespace gives at
\* least one line; row_count is the number of lines.
C16_LineCount ==
    pc = "done" =>
        /\ (args.details = <<>> => ret.lines = <<>>)
        /\ (\E j \in 1..Len(args.details) :
                ~IsBlank(Kept(args.details[j], args.max_len)))
              => Len(ret.lines) >= 1
        /\ ret.row_count = Len(ret.lines)

\* the only fragment with content comes last, behind a whitespace-only one
\* that had a line of its own, and one line is returned
C16_Witness ==
    /\ pc = "done"
    /\ Len(args.details) = 2
    /\ args.details[1] = <<" ">>
    /\ args.details[2] = <<"a", "b", "c">>
    /\ args.max_len = 3
    /\ ret.lines = <<<<"a", "b", "c">>>>
    /\ ret.row_count = 1

-----------------------------------------------------------------------------
(* prepare_ryohi_for_print: the first row *)

\* the segments of the route of the record formatted
RouteSegments ==
    IF IsSome(args.ryohi.kukan) THEN Segments(Unwrap(args.ryohi.kukan)) ELSE <<>>

\* the detail or the route column has text at logical row 0
TextAtRowZero ==
    /\ ret.max_rows >= 1
    /\ ~IsBlank(ret.detail_lines[1]) \/ ~IsBlank(ret.kukan_lines[1])

\* C17 as stated: a record with a non-blank detail fragment or a route with a
\* non-empty segment has row_count >= 1 and, at logical row 0, a non-blank
\* detail or route column.
C17_Original ==
    (/\ pc = "done"
     /\ \/ \E j \in 1..Len(args.ryohi.detail) : ~IsBlank(args.ryohi.detail[j])
        \/ \E k \in 1..Len(RouteSegments) : RouteSegments[k] # <<>>)
        => TextAtRowZero

\* C17 amended: a record with a detail fragment whose first max_detail_len
\* characters hold a character that is not whitespace, or with a route
\* segment that holds such a character, has row_count >= 1 and, at logical
\* row 0, a non-blank detail or route column.
C17_FirstRowText ==
    (/\ pc = "done"
     /\ \/ \E j \in 1..Len(args.ryohi.detail) :
              ~IsBlank(Kept(args.ryohi.detail[j], args.max_detail_len))
        \/ \E k \in 1..Len(RouteSegments) : ~IsBlank(RouteSegments[k]))
        => TextAtRowZero

\* the detail is whitespace-only and the route wraps to a blank line and a
\* place name: the place name is at row 0, next to the scalar fields
C17_Witness ==
    /\ pc = "done"
    /\ args.ryohi.detail = <<<<" ">>>>
    /\ args.ryohi.kukan = Some(<<" ", " ", "a">>)
    /\ args.max_kukan_len = 1
    /\ IsSome(args.ryohi.date)
    /\ ret.max_rows = 2
    /\ ret.kukan_lines = <<<<"a">>, <<>>>>
    /\ ret.detail_lines = <<<<>>, <<>>>>
    /\ ret.date_lines[1] # <<>>

-----------------------------------------------------------------------------
(* wrap_detail: lists that do not fit one line *)

\* C18 as stated: a list of at least two non-blank fragments whose joined
\* length exceeds max_len comes back as at least two lines.
C18_Original ==
    (/\ pc = "done"
     /\ Len(args.details) >= 2
     /\ \A j \in 1..Len(args.details) : ~IsBlank(args.details[j])
     /\ Len(JoinDetails(args.details)) > args.max_len)
        => Len(ret.lines) >= 2

\* C18 amended: a list of at least two fragments, each with a character that
\* is not whitespace among its first max_len characters, whose joined length
\* exceeds max_len comes back as at least two lines.
C18_TwoLines ==
    (/\ pc = "done"
     /\ Len(args.details) >= 2
     /\ \A j \in 1..Len(args.details) : ~IsBlank(Kept(args.details[j], args.max_len))
     /\ Len(JoinDetails(args.details)) > args.max_len)
        => Len(ret.lines) >= 2

\* two fragments that would fit one line but for the separator
C18_Witness ==
    /\ pc = "done"
    /\ args.details = <<<<"a", "b">>, <<"a">>>>
    /\ args.max_len = 3
    /\ ret.lines = <<<<"a", "b">>, <<"a">>>>

-----------------------------------------------------------------------------
(* wrap_detail: over-length fragments *)

\* the lines wrap_detail assembles, before the blank ones are filtered out
AssembledLines == WrapDetailLoop(args.details, args.max_len, <<>>, <<>>)

\* the fragments with what is beyond max_len characters removed beforehand
KeptDetails == [j \in 1..Len(args.details) |-> Kept(args.details[j], args.max_len)]

\* C19: a fragment of more than max_len characters starts a line that
\* consists of exactly its first max_len characters (returned unless it is
\* whitespace-only); what is beyond is discarded: the lines returned are those
\* of the list with every fragment cut to max_len beforehand.
C19_Truncation ==
    pc = "done" =>
        /\ \A j \in 1..Len(args.details) :
              Len(args.details[j]) > args.max_len =>
                 /\ \E k \in 1..Len(AssembledLines) :
                       AssembledLines[k] = SubSeq(args.details[j], 1, args.max_len)
                 /\ \/ IsBlank(SubSeq(args.details[j], 1, args.max_len))
                    \/ \E k \in 1..Len(ret.lines) :
                          ret.lines[k] = SubSeq(args.details[j], 1, args.max_len)
        /\ ret.lines = wrap_detail(KeptDetails, args.max_len).lines

\* "abc" is cut to "ab"; the "c" is neither a line nor in front of the next
\* fragment
C19_Witness ==
    /\ pc = "done"
    /\ args.details = <<<<"a", "b", "c">>, <<"a">>>>
    /\ args.max_len = 2
    /\ ret.lines = <<<<"a", "b">>, <<"a">>>>

-----------------------------------------------------------------------------
(* wrap_kukan: runs of delimiters *)

\* the delimiter characters of a route string
IsDelimiter(c) == c \in {" ", "U+3000", "|", "U+FF5C"}

\* the route string with every run of delimiters reduced to its first one
CollapseRuns(kukan) ==
    LET kept == SelectSeq([k \in 1..Len(kukan) |-> k],
                          LAMBDA k : ~(/\ IsDelimiter(kukan[k])
                                       /\ k > 1
                                       /\ IsDelimiter(kukan[k - 1])))
    IN  [j \in 1..Len(kept) |-> kukan[kept[j]]]

\* C20: a run of two or more delimiters between two place names is one split
\* point: no empty segment takes part in the packing, and the lines are those
\* of the route with a single delimiter in place of the run.
C20_DelimiterRuns ==
    (/\ pc = "done"
     /\ args.kukan # <<>>
     /\ ~IsDelimiter(args.kukan[1])
     /\ ~IsDelimiter(args.kukan[Len(args.kukan)]))
        => /\ \A k \in 1..Len(Segments(args.kukan)) : Segments(args.kukan)[k] # <<>>
           /\ ret.lines = wrap_kukan(CollapseRuns(args.kukan), args.max_len).lines

-----------------------------------------------------------------------------
(* prepare_ryohi_for_print: the padding of the wrapped columns *)

\* the lines of a wrap result that hold a character that is not whitespace
TextLines(lines) ==
    SelectSeq(lines, LAMBDA line : \E k \in 1..Len(line) : ~IsWhitespace(line[k]))

\* the column holds the text lines in their order from index 0, and empty
\* strings from there up to row_count
PaddedFrom(column, lines, row_count) ==
    /\ Len(column) = row_count
    /\ Len(TextLines(lines)) <= row_count
    /\ \A k \in 1..Len(column) :
          column[k] = IF k <= Len(TextLines(lines)) THEN TextLines(lines)[k] ELSE <<>>

\* C21: the padding never truncates or reorders: the non-blank lines of
\* wrap_detail (of wrap_kukan) are in the detail (route) column in the same
\* order at consecutive indices from 0, followed only by blank strings up to
\* row_count; the blank lines between them are removed.
C21_PaddingKeepsLines ==
    pc = "done" =>
        /\ PaddedFrom(ret.detail_lines,
                      DetailResult(args.ryohi, args.max_detail_len).lines, ret.max_rows)
        /\ PaddedFrom(ret.kukan_lines,
                      KukanResult(args.ryohi, args.max_kukan_len).lines, ret.max_rows)

\* the route wrapped to a place name, a blank line and a place name: the two
\* names are at rows 0 and 1 and the blank line is the padding of row 2
C21_Witness ==
    /\ pc = "done"
    /\ KukanResult(args.ryohi, args.max_kukan_len).lines = <<<<"a">>, <<>>, <<"b">>>>
    /\ ret.kukan_lines = <<<<"a">>, <<"b">>, <<>>>>
    /\ Len(DetailResult(args.ryohi, args.max_detail_len).lines) = 2
    /\ Len(ret.detail_lines) = 3

\* C26: in the PrintRow format_record returns the rows with content form a
\* prefix: a row with content has only rows with content before it, so blank
\* rows are trailing padding.
C26_ContentPrefix ==
    pc = "done" =>
        \A r \in 0..(ret.max_rows - 1) :
            has_content_in_row(ret, r) =>
                \A q \in 0..(r - 1) : has_content_in_row(ret, q)

\* three rows of which the first two have content, the first one the date too
C26_Witness ==
    /\ pc = "done"
    /\ ret.max_rows = 3
    /\ IsSome(args.ryohi.date)
    /\ has_content_in_row(ret, 0)
    /\ has_content_in_row(ret, 1)
    /\ ~has_content_in_row(ret, 2)
    /\ RouteRows = 3

-----------------------------------------------------------------------------
(* add_ryohi_items: the instructions of a drawn row *)

\* the value of a column of the prepared record at a row
ColumnValue(data, column, r) ==
    CASE column = "date"   -> GetLine(data.date_lines, r)
      [] column = "dest"   -> GetLine(data.dest_lines, r)
      [] column = "detail" -> GetLine(data.detail_lines, r)
      [] column = "kukan"  -> GetLine(data.kukan_lines, r)
      [] column = "price"  -> GetLine(data.price_lines, r)
      [] column = "vol"    -> GetLine(data.vol_lines, r)

\* C22: when a row is drawn, exactly one instruction is emitted for each of
\* the six columns whose value at the row is non-blank, and none for a column
\* whose value is empty or whitespace-only.
C22_OnePerNonBlankColumn ==
    [][ops' # ops =>
          \A column \in {"date", "dest", "detail", "kukan", "price", "vol"} :
              Cardinality({j \in (Len(ops) + 1)..Len(ops') : ops'[j].column = column})
                  = IF IsBlank(ColumnValue(print_data, column, row)) THEN 0 ELSE 1]_vars

-----------------------------------------------------------------------------
(* wrap_kukan: the lines and the place names *)

\* C24: for every route string and every max_len >= 1, every line wrap_kukan
\* returns other than the sentinel "exceed*" has at most max_len characters,
\* over-length segments or not.
C24_RouteLineWithinMax ==
    pc = "done" =>
        \A k \in 1..Len(ret.lines) :
            ret.lines[k] = Exceed \/ Len(ret.lines[k]) <= args.max_len

\* the place names of a returned line: its pieces between full-width spaces
Words(line) == SelectSeq(SplitKukan(line), LAMBDA w : w # <<>>)

RECURSIVE WordsOfLines(_)
\* the place names of the returned lines, read in order
WordsOfLines(lines) ==
    IF lines = <<>> THEN <<>> ELSE Words(Head(lines)) \o WordsOfLines(Tail(lines))

\* the non-empty segments in input order, the sentinel in place of each
\* over-length one
ExpectedWords(kukan, max_len) ==
    LET named == SelectSeq(Segments(kukan), LAMBDA w : w # <<>>)
    IN  [k \in 1..Len(named) |-> IF Len(named[k]) > max_len THEN Exceed ELSE named[k]]

\* C25: wrap_kukan never loses or reorders place names: the returned lines
\* read in order give the non-empty segments in input order, with "exceed*"
\* at the position of each over-length segment.
C25_RouteKeepsNames ==
    pc = "done" => WordsOfLines(ret.lines) = ExpectedWords(args.kukan, args.max_len)

-----------------------------------------------------------------------------
(* wrap_detail: the fragments in the lines *)

\* the pieces of a line between the full-width commas
Pieces(line) ==
    LET starts == {k \in 1..Len(line) : line[k] = "U+3001"}
        n      == Cardinality(starts)
        nth(j) == CHOOSE k \in starts : Cardinality({m \in starts : m < k}) = j - 1
        from(j) == IF j = 1 THEN 1 ELSE nth(j - 1) + 1
        to(j)   == IF j = n + 1 THEN Len(line) ELSE nth(j) - 1
    IN  [j \in 1..(n + 1) |-> SubSeq(line, from(j), to(j))]

RECURSIVE PiecesOfLines(_)
\* the pieces of the returned lines, read in order
PiecesOfLines(lines) ==
    IF lines = <<>> THEN <<>> ELSE Pieces(Head(lines)) \o PiecesOfLines(Tail(lines))

-----------------------------------------------------------------------------
(* ReportLabStylePdfClient::generate *)

\* the paths of the output files: PdfRequest's default and another one
DefaultPath == "travel_expense.pdf"
Paths == {DefaultPath, "other.pdf"}

\* a PDF file: the document saved from the items, and the call that wrote it
File(writer, items) == [writer |-> writer, items |-> items]

\* no file at any path
NoFiles == [path \in Paths |-> None]

\* Ok(v), Err(e)
Ok(v) == [ok |-> TRUE, value |-> v]
Err(e) == [ok |-> FALSE, error |-> e]

\* the row add_ryohi_items starts a page at is the one the page before ended at
StartRow_Carried(previous_row) == previous_row

\* let mut current_row: usize = 0
StartRow(previous_row) == 0

\* Item, the ryohi records of it
Item(ryohi) == [ryohi |-> ryohi]

\* the items of the documents generated: without records, of one row, of
\* more rows than a page takes, and of rows with blank padding
GenItems ==
    {Item(<<>>), Item(<<RecOne>>), Item(<<RecSixteen, RecOne>>),
     Item(<<RecFive, RecBlankLine>>)}

InitGenerate ==
    /\ pc = "font"
    /\ build = "release"          \* the amounts here do not overflow
    /\ args \in [items : SeqsUpTo(GenItems, MaxItems), output_path : {DefaultPath}]
    /\ ret = <<>>
    /\ ryohi_list = <<>> /\ idx = 0 /\ print_data = NoPrintData /\ actual_rows = 0
    /\ row = 0 /\ drawn_rows = 0 /\ current_row = 0 /\ ops = <<>>
    /\ pages = <<>>
    /\ files = NoFiles
    /\ requests = <<>> /\ task = <<>> /\ prints = <<>> /\ results = <<>>

\* find_font, load_font_data and the parsing of the font succeed
FontLoaded ==
    /\ pc = "font"
    /\ pc' = "item"
    /\ UNCHANGED <<build, args, ret, pageVars, svcVars>>

\* one of them fails: generate returns FontLoad
FontMissing ==
    /\ pc = "font"
    /\ pc' = "error"
    /\ ret' = Err("FontLoad")
    /\ UNCHANGED <<build, args, pageVars, svcVars>>

\* create_page_operations for the next item: a new list of operations, and
\* add_ryohi_items is entered
BeginItem ==
    /\ pc = "item"
    /\ Len(pages) < Len(args.items)
    /\ ryohi_list' = args.items[Len(pages) + 1].ryohi
    /\ idx' = 0
    /\ current_row' = StartRow(current_row)
    /\ ops' = <<>>
    /\ pc' = "loop"
    /\ UNCHANGED <<build, args, ret, print_data, actual_rows, row, drawn_rows,
                   svcVars>>

\* add_ryohi_items returned: pages.push(page)
EndItem ==
    /\ pc = "done"
    /\ pages' = Append(pages, ops)
    /\ pc' = "item"
    /\ UNCHANGED <<build, args, ret, pageVars, files, requests, task, prints,
                   results>>

\* the document is saved: std::fs::write succeeds
SavePdf ==
    /\ pc = "item"
    /\ Len(pages) >= Len(args.items)
    /\ files' = [files EXCEPT ![args.output_path] = Some(File("generate", args.items))]
    /\ ret' = Ok(args.output_path)
    /\ pc' = "saved"
    /\ UNCHANGED <<build, args, pageVars, pages, requests, task, prints, results>>

\* std::fs::write fails: generate returns FileIO
SaveFails ==
    /\ pc = "item"
    /\ Len(pages) >= Len(args.items)
    /\ ret' = Err("FileIO")
    /\ pc' = "error"
    /\ UNCHANGED <<build, args, pageVars, svcVars>>

NextGenerate ==
    \/ FontLoaded
    \/ FontMissing
    \/ BeginItem
    \/ BeginRecord
    \/ SkipRow
    \/ DrawRow
    \/ EndRecord
    \/ BreakFull
    \/ EndList
    \/ EndItem
    \/ SavePdf
    \/ SaveFails

SpecGenerate == InitGenerate /\ [][NextGenerate]_vars

RECURSIVE ContentRowsOfList(_)
\* the rows with content of the records of an item
ContentRowsOfList(list) ==
    IF list = <<>> THEN 0
    ELSE ContentRows(prepare_ryohi_for_print(Head(list), MAX_DETAIL_LENGTH,
                                             MAX_KUKAN_LENGTH))
         + ContentRowsOfList(Tail(list))

\* the logical rows drawn on a page
RowsOfPage(page) == {page[k].logical_row : k \in 1..Len(page)}

\* C23: the row budget is per page: generate builds one page per item in
\* input order, and the records of every item start at logical row 0 with the
\* full capacity of 14, whatever the items before consumed or dropped.
C23_BudgetPerPage ==
    /\ [](/\ Len(pages) <= Len(args.items)
          /\ \A k \in 1..Len(pages) :
                RowsOfPage(pages[k]) =
                    0..(Min(14, ContentRowsOfList(args.items[k].ryohi)) - 1)
          /\ (pc = "saved" => Len(pages) = Len(args.items)))
    /\ [][(pc = "item" /\ pc' = "loop") => current_row' = 0]_vars

\* the first item filled its page and dropped rows; the second one has its
\* own fourteen rows
C23_Witness ==
    /\ pc = "saved"
    /\ args.items = <<Item(<<RecSixteen, RecOne>>), Item(<<RecSixteen, RecOne>>)>>
    /\ Len(pages) = 2
    /\ RowsOfPage(pages[2]) = 0..13

-----------------------------------------------------------------------------
(* PdfService::call *)

\* the calls that run concurrently
CallIds == {"c1", "c2"}

\* PdfRequest, the fields call reads but for the printer name
PdfRequest(items, output_path, print) ==
    [items |-> items, output_path |-> output_path, print |-> print]

\* the items of the requests: one page, two pages, and a record on which the
\* preparation of the page panics
ServiceItems ==
    {<<Item(<<RecOne>>)>>, <<Item(<<RecOne>>), Item(<<>>)>>, <<Item(<<RecPanic>>)>>}

\* the page building of generate panics on one of the records
ItemsPanic(items) ==
    \E i \in 1..Len(items) : \E k \in 1..Len(items[i].ryohi) :
        prepare_ryohi_for_print(items[i].ryohi[k], MAX_DETAIL_LENGTH,
                                MAX_KUKAN_LENGTH).panicked

\* metadata.len() of a saved document; the serialisation itself is not
\* modelled: the size grows with the pages and the records
FileSize(file) ==
    LET RECURSIVE Records(_)
        Records(items) ==
            IF items = <<>> THEN 0 ELSE Len(Head(items).ryohi) + Records(Tail(items))
    IN  1000 + 100 * Len(file.items) + Records(file.items)

\* PdfResult
PdfResult(pdf_path, file_size, printed) ==
    [pdf_path |-> pdf_path, file_size |-> file_size, printed |-> printed]

\* the printer is invoked whatever the request says
NeedsPrint_Always(req) == TRUE

\* if print
NeedsPrint(req) == req.print

\* the exit status of SumatraPDF is not looked at
PrintResult_StatusIgnored(status) == Ok("printed")

\* SumatraPrinter::print, once the command has run
PrintResult(status) ==
    IF status = "success" THEN Ok("printed") ELSE Err("Print")

\* the local state of a call: its position, pdf_path once generate has
\* returned it, and printed
Task(position, pdf_path, printed) ==
    [pc |-> position, pdf_path |-> pdf_path, printed |-> printed]

InitService ==
    /\ pc = "service"
    /\ build = "release"          \* the amounts here do not overflow
    /\ args = <<>>
    /\ ret = <<>>
    /\ ryohi_list = <<>> /\ idx = 0 /\ print_data = NoPrintData /\ actual_rows = 0
    /\ row = 0 /\ drawn_rows = 0 /\ current_row = 0 /\ ops = <<>>
    /\ pages = <<>>
    /\ files = NoFiles
    /\ requests \in [CallIds -> {PdfRequest(items, path, print) :
                                    items \in ServiceItems, path \in Paths,
                                    print \in BOOLEAN}]
    /\ task = [c \in CallIds |-> Task("start", None, FALSE)]
    /\ prints = <<>>
    /\ results = [c \in CallIds |-> None]

\* what a step of a call leaves alone
ServiceFrame == UNCHANGED <<pc, build, args, ret, pageVars, pages, requests>>

\* the call ends with an error
Fail(c, error) ==
    /\ results' = [results EXCEPT ![c] = Some(Err(error))]
    /\ task' = [task EXCEPT ![c].pc = "done"]

\* generate: the font cannot be found, read or parsed
GenerateFontFails(c) ==
    /\ task[c].pc = "start"
    /\ Fail(c, "FontLoad")
    /\ UNCHANGED <<files, prints>>
    /\ ServiceFrame

\* generate: the pages are built; a panic ends the blocking task, and the
\* join error is returned as Generation
GeneratePages(c) ==
    /\ task[c].pc = "start"
    /\ IF ItemsPanic(requests[c].items)
       THEN Fail(c, "Generation")
       ELSE /\ task' = [task EXCEPT ![c].pc = "write"]
            /\ UNCHANGED results
    /\ UNCHANGED <<files, prints>>
    /\ ServiceFrame

\* generate: std::fs::write succeeds and generate returns the path
GenerateWrites(c) ==
    /\ task[c].pc = "write"
    /\ files' = [files EXCEPT ![requests[c].output_path] =
                                  Some(File(c, requests[c].items))]
    /\ task' = [task EXCEPT ![c] =
                   Task(IF NeedsPrint(requests[c]) THEN "print" ELSE "result",
                        Some(requests[c].output_path), FALSE)]
    /\ UNCHANGED <<prints, results>>
    /\ ServiceFrame

\* generate: std::fs::write fails
GenerateWriteFails(c) ==
    /\ task[c].pc = "write"
    /\ Fail(c, "FileIO")
    /\ UNCHANGED <<files, prints>>
    /\ ServiceFrame

\* the print task: SumatraPDF is not found
SumatraMissing(c) ==
    /\ task[c].pc = "print"
    /\ Fail(c, "Print")
    /\ UNCHANGED <<files, prints>>
    /\ ServiceFrame

\* the print task: SumatraPDF runs on the file at pdf_path and exits with a
\* status
SumatraRuns(c) ==
    /\ task[c].pc = "print"
    /\ \E status \in {"success", "failure"} :
          /\ prints' = Append(prints, [call |-> c,
                                       path |-> Unwrap(task[c].pdf_path),
                                       file |-> files[Unwrap(task[c].pdf_path)],
                                       status |-> status])
          /\ IF PrintResult(status).ok
             THEN /\ task' = [task EXCEPT ![c].pc = "result", ![c].printed = TRUE]
                  /\ UNCHANGED results
             ELSE Fail(c, PrintResult(status).error)
    /\ UNCHANGED files
    /\ ServiceFrame

\* PdfResult::new reads the metadata of the file at pdf_path
MakeResult(c) ==
    /\ task[c].pc = "result"
    /\ LET pdf_path == Unwrap(task[c].pdf_path)
       IN  results' = [results EXCEPT ![c] =
               Some(Ok(PdfResult(pdf_path, FileSize(Unwrap(files[pdf_path])),
                                 task[c].printed)))]
    /\ task' = [task EXCEPT ![c].pc = "done"]
    /\ UNCHANGED <<files, prints>>
    /\ ServiceFrame

NextService ==
    \E c \in CallIds :
        \/ GenerateFontFails(c)
        \/ GeneratePages(c)
        \/ GenerateWrites(c)
        \/ GenerateWriteFails(c)
        \/ SumatraMissing(c)
        \/ SumatraRuns(c)
        \/ MakeResult(c)

SpecService == InitService /\ [][NextService]_vars

\* the call returned this error
Failed(c, error) == results[c] = Some(Err(error))

\* the call returned Ok
Succeeded(c) == IsSome(results[c]) /\ Unwrap(results[c]).ok

\* the invocations of the printer by a call
PrintsOf(c) == {k \in 1..Len(prints) : prints[k].call = c}

\* C28: the printer is invoked only for a request whose print flag is true,
\* and only once generate has returned the path of the file it wrote; a call
\* whose generation fails returns that error and prints nothing; the printed
\* flag of a result equals the print flag of the request.
C28_PrintAfterGenerate ==
    /\ [](\A k \in 1..Len(prints) :
             requests[prints[k].call].print /\ IsSome(prints[k].file))
    /\ [][prints' # prints =>
             \E c \in CallIds :
                 /\ Len(prints') = Len(prints) + 1
                 /\ prints'[Len(prints')].call = c
                 /\ IsSome(task[c].pdf_path)
                 /\ IsSome(files[Unwrap(task[c].pdf_path)])]_vars
    /\ [](\A c \in CallIds :
             /\ (task[c].pc = "done" /\ task[c].pdf_path = None) =>
                    /\ \E error \in {"FontLoad", "Generation", "FileIO"} :
                          Failed(c, error)
                    /\ PrintsOf(c) = {}
             /\ Succeeded(c) =>
                    /\ Unwrap(results[c]).value.printed = requests[c].print
                    /\ requests[c].print => PrintsOf(c) # {})

\* one call printed its file and returned printed = true, the other asked for
\* a print too but its generation failed and nothing was printed for it
C28_Witness ==
    /\ Succeeded("c1")
    /\ Unwrap(results["c1"]).value.printed
    /\ Len(prints) = 1
    /\ prints[1].call = "c1"
    /\ prints[1].status = "success"
    /\ requests["c2"].print
    /\ Failed("c2", "Generation")

\* C29: when the print step fails the call returns the Print error and never
\* Ok, and the file generate wrote stays as it is; when the font cannot be
\* loaded the call returns FontLoad and has written no file.
C29_PrintFailure ==
    /\ [](\A k \in 1..Len(prints) :
             prints[k].status = "failure" => Failed(prints[k].call, "Print"))
    /\ [][\A c \in CallIds :
             /\ (results[c] = None /\ results'[c] = Some(Err("Print"))) =>
                    /\ requests[c].print
                    /\ files' = files
                    /\ IsSome(files[requests[c].output_path])
             /\ results[c] # None => results'[c] = results[c]]_vars
    /\ [](\A c \in CallIds :
             Failed(c, "FontLoad") =>
                 \A path \in Paths :
                     files[path] = None \/ Unwrap(files[path]).writer # c)

\* SumatraPDF exited with a failure for one call, whose file is still there;
\* the font could not be loaded for the other, which wrote nothing
C29_Witness ==
    /\ Len(prints) = 1
    /\ prints[1].call = "c1"
    /\ prints[1].status = "failure"
    /\ Failed("c1", "Print")
    /\ files[requests["c1"].output_path] = Some(File("c1", requests["c1"].items))
    /\ Failed("c2", "FontLoad")
    /\ requests["c2"].output_path # requests["c1"].output_path
    /\ files[requests["c2"].output_path] = None

\* C30: with two calls running concurrently, also on the same output path,
\* the result of a successful call describes the document of its own items:
\* the file at pdf_path holds the pages of the call's items and file_size is
\* the size of that document.
C30_OwnFile ==
    \A c \in CallIds :
        Succeeded(c) =>
            /\ Unwrap(results[c]).value.file_size =
                   FileSize(File(c, requests[c].items))
            /\ IsSome(files[Unwrap(results[c]).value.pdf_path])
            /\ Unwrap(files[Unwrap(results[c]).value.pdf_path]).items =
                   requests[c].items

=============================================================================
